---- MODULE Spec2Model ----
(***************************************************************************)
(* The guish shell of CSC360-Project1-Shell-Provide.cpp: the main loop,    *)
(* the command dispatcher, the bounded history, the recall resolver, the   *)
(* SIGINT counter and the fork/exec/wait life of an external command.      *)
(*                                                                         *)
(* A command line is a sequence of one-character strings, so that the      *)
(* tokenizer, the test for the `r` command and stoi() work on characters   *)
(* as the C++ code does.                                                   *)
(*                                                                         *)
(* signal() is glibc's: BSD semantics, the handler stays installed and an  *)
(* interrupted getline()/waitpid() is restarted.                           *)
(***************************************************************************)
EXTENDS Integers, Sequences, FiniteSets, TLC

VARIABLES
    pc,            \* where main() is: "prompt", "dispatch", "wait", "done"
    line,          \* the line getline() returned last
    history,       \* vector<string> history
    sigint_count,  \* volatile sig_atomic_t sigint_count
    delivered,     \* number of SIGINTs the kernel delivered to the shell
    cwd,           \* working directory of the shell process
    child,         \* the child process of the external command being run
    out,           \* what the terminal received since the last line was read
    reports,       \* number of "Shell exiting" messages printed
    status,        \* exit status of the shell process, NoStatus while it runs
    notices,       \* number of "Caught SIGINT" notices the handler printed
    added          \* the lines handed to add_to_history by the history harness

vars == <<pc, line, history, sigint_count, delivered, cwd, child, out,
          reports, status, notices, added>>

----------------------------------------------------------------------------
\* Program constants and bounds

HISTORY_SIZE == 10

INT_MAX == 2147483647

EXIT_FAILURE == 1

\* at most this many SIGINTs are delivered in a run
MaxSigints == 2

\* at most this many add_to_history calls are made by the history harness
MaxAdds == 11

NoStatus == 0 - 1

----------------------------------------------------------------------------
\* Characters and lines

\* isspace() in the "C" locale, the set line 50 spells out (the vertical tab
\* has no TLA+ string and is left out)
Whitespace == {" ", "\t", "\n", "\f", "\r"}

Digit == {"0", "1", "2", "3", "4", "5", "6", "7", "8", "9"}

DigitVal(c) ==
    CASE c = "0" -> 0 [] c = "1" -> 1 [] c = "2" -> 2 [] c = "3" -> 3
      [] c = "4" -> 4 [] c = "5" -> 5 [] c = "6" -> 6 [] c = "7" -> 7
      [] c = "8" -> 8 [] c = "9" -> 9

L_hist   == <<"h", "i", "s", "t">>
L_ls     == <<"l", "s">>
L_cd_t   == <<"c", "d", " ", "/", "t">>
L_cd_x   == <<"c", "d", " ", "/", "x">>
L_cd     == <<"c", "d">>
L_exit   == <<"e", "x", "i", "t">>
L_exit_s == <<" ", "e", "x", "i", "t", " ", "3">>
L_empty  == <<>>
L_blank  == <<" ", "\t">>
L_r      == <<"r">>
L_r_0    == <<"r", " ", "0">>
L_r_1    == <<"r", " ", "1">>
L_r_2    == <<"r", " ", "2">>
L_r_3    == <<"r", " ", "3">>
L_r_4    == <<"r", " ", "4">>
L_r_x    == <<"r", " ", "x">>
L_r_1x   == <<"r", " ", "1", "x">>
L_r_big  == <<"r", " ", "9", "9", "9", "9", "9", "9", "9", "9", "9", "9">>
L_sp_r   == <<" ", "r">>
L_r_tab  == <<"r", "\t", "1">>

\* the directories that exist, and $HOME
Dirs == {<<"/">>, <<"/", "t">>}
HOME == <<"/">>

----------------------------------------------------------------------------
\* Terminal output: one record per message

Ev(t, s, n) == [t |-> t, s |-> s, n |-> n]

NoChild == [st |-> "none", prog |-> <<>>, execd |-> FALSE, code |-> 0]

----------------------------------------------------------------------------
\* parse_args: the tokens of a line, split on runs of whitespace

RECURSIVE Tokens(_, _, _)
Tokens(s, i, cur) ==
    IF i > Len(s)
    THEN IF cur = <<>> THEN <<>> ELSE <<cur>>
    ELSE IF s[i] \in Whitespace
         THEN IF cur = <<>>
              THEN Tokens(s, i + 1, <<>>)
              ELSE <<cur>> \o Tokens(s, i + 1, <<>>)
         ELSE Tokens(s, i + 1, Append(cur, s[i]))

parse_args(l) == Tokens(l, 1, <<>>)

\* line 50: line.empty() || line.find_first_not_of(" \t\n\v\f\r") == npos
IsBlank(l) == \A i \in 1..Len(l) : l[i] \in Whitespace

\* line 55: line[0] == 'r' && (line.length() == 1 || line[1] == ' ')
IsRecall(l) == Len(l) >= 1 /\ l[1] = "r" /\ (Len(l) = 1 \/ l[2] = " ")

\* line 56: (line.length() > 2) ? line.substr(2) : ""
RecallArg(l) == IF Len(l) > 2 THEN SubSeq(l, 3, Len(l)) ELSE <<>>

----------------------------------------------------------------------------
\* std::stoi: skip leading whitespace, take an optional sign, then the
\* longest run of digits; what follows the digits is ignored.

RECURSIVE SkipSpace(_, _)
SkipSpace(s, i) ==
    IF i <= Len(s) /\ s[i] \in Whitespace THEN SkipSpace(s, i + 1) ELSE i

RECURSIVE DigitsEnd(_, _)
DigitsEnd(s, i) ==
    IF i <= Len(s) /\ s[i] \in Digit THEN DigitsEnd(s, i + 1) ELSE i

\* The value of the digits s[i..j-1] on top of acc, or TooBig once it passes
\* INT_MAX.
TooBig == 0 - 1

RECURSIVE DigitsValue(_, _, _, _)
DigitsValue(s, i, j, acc) ==
    IF i >= j THEN acc
    ELSE IF acc = TooBig \/ acc > (INT_MAX - DigitVal(s[i])) \div 10
         THEN DigitsValue(s, i + 1, j, TooBig)
         ELSE DigitsValue(s, i + 1, j, 10 * acc + DigitVal(s[i]))

\* The same for a numeral with a minus sign: the value, at most 0, or TooSmall
\* once it passes INT_MIN.
TooSmall == 1

INT_MIN == 0 - INT_MAX - 1

RECURSIVE DigitsValueNeg(_, _, _, _)
DigitsValueNeg(s, i, j, acc) ==
    IF i >= j THEN acc
    ELSE IF acc = TooSmall \/ acc < (INT_MIN + DigitVal(s[i]) + 9) \div 10
         THEN DigitsValueNeg(s, i + 1, j, TooSmall)
         ELSE DigitsValueNeg(s, i + 1, j, 10 * acc - DigitVal(s[i]))

stoi(s) ==
    LET i0  == SkipSpace(s, 1)
        neg == i0 <= Len(s) /\ s[i0] = "-"
        i1  == IF i0 <= Len(s) /\ s[i0] \in {"+", "-"} THEN i0 + 1 ELSE i0
        i2  == DigitsEnd(s, i1)
        v   == IF neg THEN DigitsValueNeg(s, i1, i2, 0)
               ELSE DigitsValue(s, i1, i2, 0)
    IN  IF i2 = i1 THEN [kind |-> "invalid_argument", val |-> 0]
        ELSE IF (neg /\ v = TooSmall) \/ (~neg /\ v = TooBig)
             THEN [kind |-> "out_of_range", val |-> 0]
             ELSE [kind |-> "ok", val |-> v]

----------------------------------------------------------------------------
\* The history store

\* mutant: the capacity test is off by one
add_to_history_late(h, cmd) ==
    LET kept == IF Len(h) > HISTORY_SIZE THEN Tail(h) ELSE h
    IN  Append(kept, cmd)

\* mutant: at capacity the newest entry is dropped, not the oldest
add_to_history_newest(h, cmd) ==
    LET kept == IF Len(h) = HISTORY_SIZE THEN SubSeq(h, 1, Len(h) - 1) ELSE h
    IN  Append(kept, cmd)

add_to_history(h, cmd) ==
    LET kept == IF Len(h) = HISTORY_SIZE THEN Tail(h) ELSE h
    IN  Append(kept, cmd)

\* mutant: the entries are numbered from 0
print_history_0(h) == [i \in 1..Len(h) |-> Ev("hist", h[i], i - 1)]

\* one output line per entry, numbered from 1
print_history(h) == [i \in 1..Len(h) |-> Ev("hist", h[i], i)]

\* mutant: the index is used as a 0-based one
get_command_from_history_0(h, arg) ==
    IF h = <<>> THEN [cmd |-> <<>>, err |-> <<>>]
    ELSE IF arg = <<>> THEN [cmd |-> h[Len(h)], err |-> <<>>]
    ELSE LET n == stoi(arg)
         IN  IF n.kind = "ok" /\ n.val >= 0 /\ n.val < Len(h)
             THEN [cmd |-> h[n.val + 1], err |-> <<>>]
             ELSE [cmd |-> <<>>, err |-> <<>>]

\* The result of the resolver: the string it returns ("" is <<>>) and what it
\* wrote to cerr.
get_command_from_history(h, arg) ==
    IF h = <<>> THEN [cmd |-> <<>>, err |-> <<>>]
    ELSE IF arg = <<>> THEN [cmd |-> h[Len(h)], err |-> <<>>]
    ELSE LET n == stoi(arg)
         IN  CASE n.kind = "invalid_argument" ->
                    [cmd |-> <<>>, err |-> <<Ev("invalid_number", arg, 0)>>]
               [] n.kind = "out_of_range" ->
                    [cmd |-> <<>>, err |-> <<Ev("number_out_of_range", arg, 0)>>]
               [] OTHER ->
                    IF n.val >= 1 /\ n.val <= Len(h)
                    THEN [cmd |-> h[n.val], err |-> <<>>]
                    ELSE [cmd |-> <<>>, err |-> <<>>]

----------------------------------------------------------------------------
\* The dispatcher.  The result is the state main() is in when the call returns
\* or, for an external command, when the parent reaches waitpid(): o is the
\* terminal output so far, forkok whether fork() can create a process.

\* mutant: the directory is checked but never entered
chdir_noop(dir, path) == dir

chdir(dir, path) == IF path \in Dirs THEN path ELSE dir

\* lines 37-39: the prompt shows getcwd() and history.size() + 1
prompt(dir, h) == Ev("prompt", dir, Len(h) + 1)

\* mutant: the message is printed but exit(0) is left to main()'s loop
exit_builtin_returns(st, cnt) ==
    [st EXCEPT !.out = Append(st.out, Ev("exiting", <<>>, cnt)),
               !.reports = 1]

\* lines 106-111: print the count and exit(0)
exit_builtin(st, cnt) ==
    [st EXCEPT !.pc = "done",
               !.out = Append(st.out, Ev("exiting", <<>>, cnt)),
               !.reports = 1,
               !.status = 0]

\* mutant: the test for `exit` is missing, the line is handled like any other
execute_command_no_exit(cmd, h, cnt, dir, o, forkok) ==
    LET args == parse_args(cmd)
        same == [pc |-> "prompt", history |-> h, cwd |-> dir, out |-> o,
                 child |-> NoChild, reports |-> 0, status |-> NoStatus]
    IN  IF args = <<>> THEN same
        ELSE LET h1 == add_to_history(h, cmd)
             IN  IF args[1] = L_hist
                 THEN [same EXCEPT !.history = h1,
                                   !.out = o \o print_history(h1)]
                 ELSE IF args[1] = L_cd
                 THEN IF Len(args) > 1
                      THEN IF args[2] \in Dirs
                           THEN [same EXCEPT !.history = h1,
                                             !.cwd = chdir(dir, args[2])]
                           ELSE [same EXCEPT !.history = h1,
                                             !.out = Append(o, Ev("cd_failed", <<>>, 0))]
                      ELSE [same EXCEPT !.history = h1,
                                        !.cwd = chdir(dir, HOME)]
                 ELSE LET h2 == IF args[1] # L_hist
                                THEN add_to_history(h1, cmd) ELSE h1
                      IN  IF ~forkok
                          THEN [same EXCEPT !.history = h2,
                                            !.out = Append(o, Ev("fork_failed", <<>>, 0))]
                          ELSE [same EXCEPT !.pc = "wait",
                                            !.history = h2,
                                            !.child = [st |-> "forked",
                                                       prog |-> args[1],
                                                       execd |-> FALSE,
                                                       code |-> 0]]

execute_command(cmd, h, cnt, dir, o, forkok) ==
    LET args == parse_args(cmd)
        same == [pc |-> "prompt", history |-> h, cwd |-> dir, out |-> o,
                 child |-> NoChild, reports |-> 0, status |-> NoStatus]
    IN  IF args = <<>> THEN same
        ELSE IF args[1] = L_exit
        THEN exit_builtin(same, cnt)
        ELSE LET h1 == add_to_history(h, cmd)
             IN  IF args[1] = L_hist
                 THEN [same EXCEPT !.history = h1,
                                   !.out = o \o print_history(h1)]
                 ELSE IF args[1] = L_cd
                 THEN IF Len(args) > 1
                      THEN IF args[2] \in Dirs
                           THEN [same EXCEPT !.history = h1,
                                             !.cwd = chdir(dir, args[2])]
                           ELSE [same EXCEPT !.history = h1,
                                             !.out = Append(o, Ev("cd_failed", <<>>, 0))]
                      ELSE [same EXCEPT !.history = h1,
                                        !.cwd = chdir(dir, HOME)]
                 ELSE LET h2 == IF args[1] # L_hist
                                THEN add_to_history(h1, cmd) ELSE h1
                      IN  IF ~forkok
                          THEN [same EXCEPT !.history = h2,
                                            !.out = Append(o, Ev("fork_failed", <<>>, 0))]
                          ELSE [same EXCEPT !.pc = "wait",
                                            !.history = h2,
                                            !.child = [st |-> "forked",
                                                       prog |-> args[1],
                                                       execd |-> FALSE,
                                                       code |-> 0]]

\* One pass of main()'s loop body on the line just read (lines 49-68).
main_body(l, h, cnt, dir, forkok) ==
    IF IsBlank(l)
    THEN [pc |-> "prompt", history |-> h, cwd |-> dir, out |-> <<>>,
          child |-> NoChild, reports |-> 0, status |-> NoStatus]
    ELSE IF IsRecall(l)
    THEN LET r == get_command_from_history(h, RecallArg(l))
         IN  IF r.cmd # <<>>
             THEN execute_command(r.cmd, h, cnt, dir,
                                  r.err \o <<Ev("Executing", r.cmd, 0)>>, forkok)
             ELSE [pc |-> "prompt", history |-> h, cwd |-> dir,
                   out |-> Append(r.err, Ev("not_found", <<>>, 0)),
                   child |-> NoChild, reports |-> 0, status |-> NoStatus]
    ELSE execute_command(l, h, cnt, dir, <<>>, forkok)

\* mutant: the handler sets a flag instead of counting
sigint_handler_flag(cnt) == 1

sigint_handler(cnt) == cnt + 1

\* What the parent prints for the status waitpid() stored (lines 172-174).
status_report(c) ==
    IF c.st = "exited" /\ c.code # 0
    THEN <<Ev("returned", <<>>, c.code)>>
    ELSE <<>>

\* The exit statuses a running program may end with
ExitCodes == {0, 1, 2}

----------------------------------------------------------------------------
\* The lines the user types

Lines == {L_hist, L_ls, L_exit, L_exit_s, L_empty, L_blank,
          L_r, L_r_0, L_r_1, L_r_2, L_r_x, L_r_1x}

\* The lines typed in the runs that exercise the error paths
ErrLines == {L_ls, L_cd_x, L_exit, L_blank, L_r, L_r_0, L_r_x, L_r_big}

\* The lines typed in the runs that exercise `cd`
CdLines == {L_ls, L_cd_t, L_cd_x, L_r, L_exit}

\* The lines typed in the runs that exercise the recognition of `r`
TokLines == {L_sp_r, L_r_tab, L_r_1, L_exit}

\* The lines the history harness adds
AddLines == {L_hist, L_ls, L_cd_t}

----------------------------------------------------------------------------
\* The state machine

Init ==
    /\ pc = "prompt"
    /\ line = <<>>
    /\ history = <<>>
    /\ sigint_count = 0
    /\ delivered = 0
    /\ cwd = <<"/">>
    /\ child = NoChild
    /\ out = <<>>
    /\ reports = 0
    /\ status = NoStatus
    /\ notices = 0
    /\ added = <<>>

\* getline() returns a line, one of S (lines 36-43)
ReadLineFrom(S) ==
    /\ pc = "prompt"
    /\ \E l \in S : line' = l
    /\ pc' = "dispatch"
    /\ out' = <<>>
    /\ UNCHANGED <<history, sigint_count, delivered, cwd, child, reports,
                   status, notices, added>>

\* mutant: end of input leaves the loop and returns without the message
ReadEOF_silent ==
    /\ pc = "prompt"
    /\ pc' = "done"
    /\ out' = <<Ev("newline", <<>>, 0)>>
    /\ status' = 0
    /\ UNCHANGED <<line, history, sigint_count, delivered, cwd, child,
                   reports, notices, added>>

\* getline() fails at end of input: break, print the count, return 0
ReadEOF ==
    /\ pc = "prompt"
    /\ pc' = "done"
    /\ out' = <<Ev("newline", <<>>, 0), Ev("exiting", <<>>, sigint_count)>>
    /\ reports' = reports + 1
    /\ status' = 0
    /\ UNCHANGED <<line, history, sigint_count, delivered, cwd, child,
                   notices, added>>

\* the loop body on the line read, up to the next prompt, waitpid() or exit()
Dispatch ==
    /\ pc = "dispatch"
    /\ \E forkok \in BOOLEAN :
         LET r == main_body(line, history, sigint_count, cwd, forkok)
         IN  /\ pc' = r.pc
             /\ history' = r.history
             /\ cwd' = r.cwd
             /\ out' = r.out
             /\ child' = r.child
             /\ reports' = reports + r.reports
             /\ status' = r.status
    /\ UNCHANGED <<line, sigint_count, delivered, notices, added>>

\* mutant: a SIGINT makes waitpid() return early and the parent goes on
Sigint_eintr ==
    /\ pc # "done"
    /\ delivered < MaxSigints
    /\ delivered' = delivered + 1
    /\ sigint_count' = sigint_handler(sigint_count)
    /\ notices' = notices + 1
    /\ pc' = IF pc = "wait" THEN "prompt" ELSE pc
    /\ UNCHANGED <<line, history, cwd, child, out, reports, status, added>>

\* a SIGINT is delivered to the shell while it runs
Sigint ==
    /\ pc # "done"
    /\ delivered < MaxSigints
    /\ delivered' = delivered + 1
    /\ sigint_count' = sigint_handler(sigint_count)
    /\ notices' = notices + 1
    /\ UNCHANGED <<pc, line, history, cwd, child, out, reports, status, added>>

\* mutant: after the diagnostic the child does not exit, it returns from
\* execute_command into its own copy of main()'s loop
ChildExec_returns ==
    /\ child.st = "forked"
    /\ \E found \in BOOLEAN :
         IF found
         THEN /\ child' = [child EXCEPT !.st = "running", !.execd = TRUE]
              /\ out' = out
         ELSE /\ child' = [child EXCEPT !.st = "shell"]
              /\ out' = Append(out, Ev("missing", child.prog, 0))
    /\ UNCHANGED <<pc, line, history, sigint_count, delivered, cwd, reports,
                   status, notices, added>>

\* the child calls execvp(): the program replaces it, or execvp() returns and
\* the child prints the diagnostic and exits (lines 149-163)
ChildExec ==
    /\ child.st = "forked"
    /\ \E found \in BOOLEAN :
         IF found
         THEN /\ child' = [child EXCEPT !.st = "running", !.execd = TRUE]
              /\ out' = out
         ELSE /\ child' = [child EXCEPT !.st = "exited", !.code = EXIT_FAILURE]
              /\ out' = Append(out, Ev("missing", child.prog, 0))
    /\ UNCHANGED <<pc, line, history, sigint_count, delivered, cwd, reports,
                   status, notices, added>>

\* the external program ends: it exits with a status or a signal kills it
ChildExit ==
    /\ child.st = "running"
    /\ \E c \in ExitCodes \cup {-1} :
         child' = IF c = -1 THEN [child EXCEPT !.st = "signaled"]
                  ELSE [child EXCEPT !.st = "exited", !.code = c]
    /\ UNCHANGED <<pc, line, history, sigint_count, delivered, cwd, out,
                   reports, status, notices, added>>

\* mutant: the shell gives up when the command failed
Wait_exits ==
    /\ pc = "wait"
    /\ child.st \in {"exited", "signaled"}
    /\ out' = out \o status_report(child)
    /\ child' = NoChild
    /\ pc' = IF child.st = "exited" /\ child.code = 0 THEN "prompt" ELSE "done"
    /\ UNCHANGED <<line, history, sigint_count, delivered, cwd, reports,
                   status, notices, added>>

\* waitpid() returns in the parent, which reports the status (lines 166-175)
Wait ==
    /\ pc = "wait"
    /\ child.st \in {"exited", "signaled"}
    /\ out' = out \o status_report(child)
    /\ child' = NoChild
    /\ pc' = "prompt"
    /\ UNCHANGED <<line, history, sigint_count, delivered, cwd, reports,
                   status, notices, added>>

ReadLine == ReadLineFrom(Lines)

Next == ReadLine \/ ReadEOF \/ Dispatch \/ Sigint \/ ChildExec \/ ChildExit \/ Wait

Spec == Init /\ [][Next]_vars

\* The same shell, the user typing the lines of ErrLines
ReadLineErr == ReadLineFrom(ErrLines)

NextErr ==
    ReadLineErr \/ ReadEOF \/ Dispatch \/ Sigint \/ ChildExec \/ ChildExit \/ Wait

SpecErr == Init /\ [][NextErr]_vars

\* The same shell, the user typing the lines of CdLines
ReadLineCd == ReadLineFrom(CdLines)

NextCd ==
    ReadLineCd \/ ReadEOF \/ Dispatch \/ Sigint \/ ChildExec \/ ChildExit \/ Wait

SpecCd == Init /\ [][NextCd]_vars

\* The same shell, the user typing the lines of TokLines
ReadLineTok == ReadLineFrom(TokLines)

NextTok ==
    ReadLineTok \/ ReadEOF \/ Dispatch \/ Sigint \/ ChildExec \/ ChildExit \/ Wait

SpecTok == Init /\ [][NextTok]_vars

----------------------------------------------------------------------------
\* The history harness: add_to_history called on its own, from the empty
\* store, with every sequence of at most MaxAdds lines.

AddStep ==
    /\ Len(added) < MaxAdds
    /\ \E l \in AddLines :
         /\ history' = add_to_history(history, l)
         /\ added' = Append(added, l)
    /\ UNCHANGED <<pc, line, sigint_count, delivered, cwd, child, out,
                   reports, status, notices>>

SpecAdd == Init /\ [][AddStep]_vars

----------------------------------------------------------------------------
\* Vocabulary of the properties

\* the step in which main() handles the line it read
DispatchStep == pc = "dispatch" /\ pc' # "dispatch"

FirstToken(l) == parse_args(l)[1]

\* a non-blank, non-recall line whose first token is not `exit`
IsCommand(l) == ~IsBlank(l) /\ ~IsRecall(l) /\ FirstToken(l) # L_exit

DigitChar(d) ==
    CASE d = 0 -> "0" [] d = 1 -> "1" [] d = 2 -> "2" [] d = 3 -> "3"
      [] d = 4 -> "4" [] d = 5 -> "5" [] d = 6 -> "6" [] d = 7 -> "7"
      [] d = 8 -> "8" [] d = 9 -> "9"

\* the decimal numeral of a natural number, as the user types it
RECURSIVE Dec(_)
Dec(n) == IF n < 10 THEN <<DigitChar(n)>>
          ELSE Append(Dec(n \div 10), DigitChar(n % 10))

\* the lines `r N`, N from 0 to one past the capacity
RecallLines == [N \in 0..(HISTORY_SIZE + 1) |-> <<"r", " ">> \o Dec(N)]

RecallLine(N) == RecallLines[N]

\* what the line l, a recall, resolves to in the current history (<<>>: fails)
Resolve(l) == get_command_from_history(history, RecallArg(l)).cmd

\* the N-th oldest of the entries the store retains, by the record of the adds
Retained(N) ==
    LET kept == IF Len(added) > HISTORY_SIZE THEN HISTORY_SIZE ELSE Len(added)
    IN  added[Len(added) - kept + N]

\* a decimal integer: an optional sign and digits, nothing else
IsInteger(a) ==
    /\ a # <<>>
    /\ LET first == IF a[1] \in {"+", "-"} THEN 2 ELSE 1
       IN  /\ first <= Len(a)
           /\ \A i \in first..Len(a) : a[i] \in Digit

\* the value of a decimal integer, clamped to -INT_MAX..INT_MAX
IntegerValue(a) ==
    LET first == IF a[1] \in {"+", "-"} THEN 2 ELSE 1
        mag   == DigitsValue(a, first, Len(a) + 1, 0)
        abs   == IF mag = TooBig THEN INT_MAX ELSE mag
    IN  IF a[1] = "-" THEN 0 - abs ELSE abs

\* the recalls C6 lists as failing, for the line l and the history h
FailedRecall(l, h) ==
    /\ IsRecall(l)
    /\ LET a == RecallArg(l)
       IN  \/ a = <<>> /\ h = <<>>
           \/ a # <<>> /\ ~IsInteger(a)
           \/ IsInteger(a) /\ (IntegerValue(a) < 1 \/ IntegerValue(a) > Len(h))

ErrorKinds == {"not_found", "invalid_number", "number_out_of_range"}

----------------------------------------------------------------------------
\* C1: in every reachable state of the shell the history holds at most
\* HISTORY_SIZE (10) entries.
C1_HistoryBounded == Len(history) <= HISTORY_SIZE

\* the store is full and has evicted: `ls` is recorded in pairs, so a lone
\* `ls` at the front is what is left of an evicted pair
C1_Witness ==
    /\ Len(history) = HISTORY_SIZE
    /\ history[1] = L_ls
    /\ history[2] = L_hist
    /\ delivered > 0

\* C2: after N > 10 adds on the empty store the history is exactly the last
\* 10 added lines, in the order they were added.
C2_LastTenRetained ==
    Len(added) > HISTORY_SIZE =>
        history = SubSeq(added, Len(added) - HISTORY_SIZE + 1, Len(added))

C2_Witness ==
    /\ Len(added) = HISTORY_SIZE + 1
    /\ added[1] = L_hist
    /\ added[2] = L_ls
    /\ added[Len(added)] = L_cd_t
    /\ history[1] = L_ls
    /\ history[HISTORY_SIZE] = L_cd_t

\* C3: handling a command line (non-blank, not a recall, first token not
\* `exit`) leaves the history with exactly one new last entry, the line, the
\* oldest entry being evicted when the store was full.
C3_RecordedOnce ==
    [][(DispatchStep /\ IsCommand(line)) =>
         history' = (IF Len(history) = HISTORY_SIZE THEN Tail(history)
                     ELSE history) \o <<line>>]_vars

\* C4: handling a recall line leaves the history as it was before the line.
C4_RecallAddsNothing ==
    [][(DispatchStep /\ IsRecall(line)) => history' = history]_vars

\* C5: on a non-empty history of size s, `r` resolves to the line added last
\* and `r N`, 1 <= N <= s, to the N-th oldest retained entry, the one `hist`
\* prints with the number N; `r 0` and `r s+1` fail.  After hist, ls, cd /t:
\* `r` is cd /t, `r 1` is hist, `r 3` is cd /t, `r 4` and `r 0` fail.
C5_RecallResolution ==
    /\ history # <<>> =>
         /\ IsRecall(L_r)
         /\ Resolve(L_r) = added[Len(added)]
         /\ \A N \in 1..Len(history) :
              /\ IsRecall(RecallLine(N))
              /\ Resolve(RecallLine(N)) = Retained(N)
         /\ print_history(history) =
              [N \in 1..Len(history) |-> Ev("hist", Retained(N), N)]
         /\ Resolve(RecallLine(0)) = <<>>
         /\ Resolve(RecallLine(Len(history) + 1)) = <<>>
    /\ added = <<L_hist, L_ls, L_cd_t>> =>
         /\ Resolve(L_r) = L_cd_t
         /\ Resolve(L_r_1) = L_hist
         /\ Resolve(L_r_3) = L_cd_t
         /\ Resolve(L_r_4) = <<>>
         /\ Resolve(L_r_0) = <<>>

C5_Witness ==
    /\ added = <<L_hist, L_ls, L_cd_t>>
    /\ history = added
    /\ Resolve(L_r_2) = L_ls

\* C6: a failed recall (`r` on the empty history, `r N` with N < 1 or N above
\* the size, `r X` with X not an integer) reports an error, runs nothing,
\* launches no child, leaves the history alone and returns to the prompt.
C6_FailedRecallRunsNothing ==
    [][(DispatchStep /\ FailedRecall(line, history)) =>
         /\ pc' = "prompt"
         /\ history' = history
         /\ child' = NoChild
         /\ out' # <<>>
         /\ \A i \in 1..Len(out') : out'[i].t \in ErrorKinds]_vars

\* C7: when the first token of the dispatched line is `exit` the shell prints
\* the shutdown message with the number of signals delivered so far, ends with
\* status 0, changes no history, launches nothing; a terminated shell takes no
\* further step.
C7_ExitBuiltin ==
    /\ [][(DispatchStep /\ ~IsBlank(line) /\ FirstToken(line) = L_exit) =>
            /\ pc' = "done"
            /\ status' = 0
            /\ out' = <<Ev("exiting", <<>>, delivered)>>
            /\ history' = history
            /\ child' = NoChild /\ child = NoChild]_vars
    /\ [][pc # "done"]_vars

C7_Witness ==
    /\ pc = "done"
    /\ line = L_exit_s
    /\ delivered = MaxSigints
    /\ out = <<Ev("exiting", <<>>, MaxSigints)>>
    /\ history # <<>>

\* C8: a terminated shell has reported the interrupt count exactly once, and
\* a running shell has not reported it.
C8_ReportedOnce ==
    /\ pc = "done" => reports = 1
    /\ pc # "done" => reports = 0

\* terminated by end of input, after an interrupt
C8_Witness ==
    /\ pc = "done"
    /\ reports = 1
    /\ out = <<Ev("newline", <<>>, 0), Ev("exiting", <<>>, 1)>>

C10_MissingProgram127 ==
    (child.st = "exited" /\ ~child.execd) =>
        /\ child.code = 127
        /\ out # <<>>
        /\ out[Len(out)] = Ev("missing", child.prog, 0)

\* the kinds of message that report an error of the shell itself
ShellErrors == {"not_found", "fork_failed", "cd_failed"}

\* the step in which waitpid() returns
WaitStep == pc = "wait" /\ pc' # "wait"

\* C11: the shell terminates only by the `exit` built-in or at end of input;
\* a failed recall, a failed fork, a failed cd and the collection of a child,
\* whatever its status, leave the shell running at the next prompt, and a
\* child that has ended (exec failure included) is waited for by a running
\* shell.
C11_OnlyExitOrEOF ==
    /\ [][(pc # "done" /\ pc' = "done") =>
            \/ pc = "prompt" /\ out'[1].t = "newline"
            \/ pc = "dispatch" /\ ~IsBlank(line) /\ FirstToken(line) = L_exit]_vars
    /\ [][(DispatchStep /\ \E i \in 1..Len(out') : out'[i].t \in ShellErrors) =>
            (pc' = "prompt" /\ status' = NoStatus)]_vars
    /\ [][WaitStep => (pc' = "prompt" /\ status' = NoStatus)]_vars
    /\ [](child.st \in {"exited", "signaled"} =>
            (pc = "wait" /\ status = NoStatus))

\* back at the prompt after a missing program was run and reported
C11_Witness ==
    /\ pc = "prompt"
    /\ status = NoStatus
    /\ out = <<Ev("missing", L_ls, 0), Ev("returned", <<>>, EXIT_FAILURE)>>
    /\ Len(history) > 2

\* C12: when the child ended normally the parent prints nothing for status 0
\* and, for any other status, exactly one line carrying the program name and
\* the exit code.
C12_StatusLineNamesProgram ==
    [][(WaitStep /\ child.st = "exited") =>
         out' = out \o (IF child.code = 0 THEN <<>>
                        ELSE <<Ev("returned", child.prog, child.code)>>)]_vars

\* C13: what the parent prints when a signal killed the child differs from
\* what it prints when the child exited with status 0.
C13_AbnormalNotSilent ==
    [][(WaitStep /\ child.st = "signaled") =>
         out' # out \o status_report([child EXCEPT !.st = "exited", !.code = 0])]_vars

\* the command the line read is dispatched as: the line, or what it recalls
Dispatched == IF IsRecall(line) THEN Resolve(line) ELSE line

\* the step in which a `cd` with an argument is dispatched
CdStep ==
    /\ DispatchStep
    /\ ~IsBlank(Dispatched)
    /\ FirstToken(Dispatched) = L_cd
    /\ Len(parse_args(Dispatched)) > 1

\* C14: `cd` to an existing directory makes it the directory of the prompts
\* that follow, until the next `cd`; `cd` to a path that is no directory
\* prints a diagnostic and leaves the directory as it was; either way no
\* child is created and the shell is at its next prompt.
C14_ChangeDirectory ==
    /\ [][CdStep =>
            LET target == parse_args(Dispatched)[2]
                failed == \E i \in 1..Len(out') : out'[i].t = "cd_failed"
            IN  /\ IF target \in Dirs
                   THEN prompt(cwd', history').s = target /\ ~failed
                   ELSE prompt(cwd', history').s = prompt(cwd, history).s /\ failed
                /\ child' = NoChild
                /\ pc' = "prompt"
                /\ status' = NoStatus]_vars
    /\ [][prompt(cwd', history').s # prompt(cwd, history).s => CdStep]_vars

\* in /t, after a `cd /x` that failed there
C14_Witness ==
    /\ pc = "prompt"
    /\ line = L_cd_x
    /\ prompt(cwd, history).s = <<"/", "t">>
    /\ out = <<Ev("cd_failed", <<>>, 0)>>
    /\ \E i \in 1..Len(history) : history[i] = L_ls

\* the step in which a typed `hist` is dispatched on the empty history
HistOnEmptyStep ==
    /\ DispatchStep
    /\ IsCommand(line)
    /\ FirstToken(line) = L_hist
    /\ history = <<>>

\* C15 as stated: `hist` on the empty history prints nothing.
C15_HistPrintsNothing == [][HistOnEmptyStep => out' = <<>>]_vars

\* C15 amended: `hist` on the empty history prints exactly one line, the
\* `hist` line itself with the number 1.
C15_HistPrintsItself ==
    [][HistOnEmptyStep => out' = <<Ev("hist", line, 1)>>]_vars

C15_Witness ==
    /\ pc = "prompt"
    /\ line = L_hist
    /\ history = <<L_hist>>
    /\ out = <<Ev("hist", L_hist, 1)>>

\* C16: a non-blank line whose first token is `r` is handled as a recall: the
\* step that handles it launches no program named `r` and leaves no such line
\* in the history.
C16_RecallByFirstToken ==
    [][(DispatchStep /\ ~IsBlank(line) /\ FirstToken(line) = L_r) =>
         /\ child'.prog # L_r
         /\ \A i \in 1..Len(history') : history'[i] # line]_vars

\* the kinds of the messages in a piece of terminal output
Kinds(o) == {o[i].t : i \in 1..Len(o)}

\* C17: a failed recall is reported by its cause, whatever the history: a
\* non-empty argument that is no integer as an invalid number, an integer
\* outside 1..size as out of range, and "not found" only for the empty
\* argument on the empty history.
C17_FailuresDistinguished ==
    [][(DispatchStep /\ IsRecall(line)) =>
         LET a == RecallArg(line)
             k == Kinds(out')
         IN  /\ (a # <<>> /\ ~IsInteger(a)) =>
                    ("invalid_number" \in k /\ "not_found" \notin k)
             /\ (IsInteger(a) /\ (IntegerValue(a) < 1 \/ IntegerValue(a) > Len(history))) =>
                    ("number_out_of_range" \in k /\ "not_found" \notin k)
             /\ "not_found" \in k => (a = <<>> /\ history = <<>>)]_vars

\* C18: while a child exists the parent is in waitpid(): it is at no prompt
\* and reads no line, and it leaves waitpid() only by collecting a child that
\* has ended; a child is created only when there is none; interrupts
\* delivered meanwhile change none of this.
C18_ParentBlocks ==
    /\ [](child # NoChild => pc = "wait")
    /\ [](pc = "wait" => child # NoChild)
    /\ [][child # NoChild =>
            /\ line' = line
            /\ \/ pc' = "wait" /\ child' # NoChild
               \/ /\ pc' = "prompt"
                  /\ child.st \in {"exited", "signaled"}
                  /\ child' = NoChild]_vars
    /\ [][(child'.st = "forked" /\ child.st # "forked") =>
            (child = NoChild /\ pc = "dispatch")]_vars

\* still waiting, after two interrupts, for a child that has already ended
C18_Witness ==
    /\ pc = "wait"
    /\ child.st = "exited"
    /\ child.code = 2
    /\ notices = MaxSigints
    /\ line = L_ls

\* the step the child takes out of fork(): its call of execvp()
ChildLaunchStep == child.st = "forked" /\ child'.st # "forked"

\* C19: the child created for an external command either becomes the
\* program or, when execvp() fails, ends right after the diagnostic; it is
\* never a second shell in main()'s loop, its step changes nothing of the
\* parent (position, line read, history), and lines are read only by the
\* parent, when no child exists.
C19_LaunchErrorConfined ==
    /\ [](child.st \in {"none", "forked", "running", "exited", "signaled"})
    /\ [][ChildLaunchStep =>
            /\ \/ /\ child'.st = "running" /\ child'.execd
                  /\ out' = out
               \/ /\ child'.st = "exited" /\ ~child'.execd
                  /\ out' = Append(out, Ev("missing", child.prog, 0))
            /\ UNCHANGED <<pc, line, history>>]_vars
    /\ [][line' # line => (child = NoChild /\ pc = "prompt")]_vars
    /\ [](child.execd => child.st \in {"running", "exited", "signaled"})

\* the child has ended on a failed execvp(), the parent has not collected it
C19_Witness ==
    /\ pc = "wait"
    /\ child.st = "exited"
    /\ ~child.execd
    /\ child.prog = L_ls
    /\ out = <<Ev("missing", L_ls, 0)>>
    /\ delivered = 1

\* C20: every history entry has a token and its first token is not `exit`;
\* so a recall that resolves gives a non-empty line of the history, an empty
\* result is reported as not found, and handling a recall never ends the
\* shell.
C20_HistoryEntriesRunnable ==
    /\ [](\A i \in 1..Len(history) :
            ~IsBlank(history[i]) /\ FirstToken(history[i]) # L_exit)
    /\ [][(DispatchStep /\ IsRecall(line)) =>
            /\ pc' # "done"
            /\ status' = NoStatus
            /\ (Resolve(line) = <<>>) <=> ("not_found" \in Kinds(out'))
            /\ Resolve(line) # <<>> =>
                 /\ \E i \in 1..Len(history) : history[i] = Resolve(line)
                 /\ Ev("Executing", Resolve(line), 0) \in
                        {out'[i] : i \in 1..Len(out')}]_vars

\* a recalled `ls` is being run
C20_Witness ==
    /\ pc = "wait"
    /\ line = L_r_2
    /\ out = <<Ev("Executing", L_ls, 0)>>
    /\ child.prog = L_ls
    /\ history[1] = L_hist

====
